---- MODULE Spec2Model ----
(***************************************************************************)
(* Model of app/src/main/cpp/language_id_l2c_jni.cpp: the four JNI entry   *)
(* points of LanguageIdentifier (nativeInitialize, nativeDetectLanguage,   *)
(* nativeRelease, nativeGetVersion), called by one or several threads.     *)
(*                                                                         *)
(* A Java string is a sequence of UTF-16 code units (integers); the buffer *)
(* GetStringUTFChars hands out is its modified UTF-8 encoding, a sequence  *)
(* of bytes 0..255; std::string values are sequences of bytes.             *)
(***************************************************************************)
EXTENDS Integers, Sequences, FiniteSets, TLC

VARIABLES pc, op, handle, text, nativeText, textStr, result, ret, logged,
          acquired, released, outstanding, cleanedUp, aborted

vars == <<pc, op, handle, text, nativeText, textStr, result, ret, logged,
          acquired, released, outstanding, cleanedUp, aborted>>

----------------------------------------------------------------------------
(* Bounds of the model. *)

\* Longest input text, in tokens of TOKENS.
MaxTokens == 2

\* Number of threads calling into the library concurrently.
NumThreads == 2

----------------------------------------------------------------------------
(* Characters. *)

LowerLetters == <<"a","b","c","d","e","f","g","h","i","j","k","l","m",
                  "n","o","p","q","r","s","t","u","v","w","x","y","z">>

UpperLetters == <<"A","B","C","D","E","F","G","H","I","J","K","L","M",
                  "N","O","P","Q","R","S","T","U","V","W","X","Y","Z">>

\* The ASCII code of a character written as a one-character string.
Ord(c) ==
    CASE c = " "  -> 32
      [] c = "."  -> 46
      [] c = "\t" -> 9
      [] \E i \in 1..26 : LowerLetters[i] = c ->
            96 + (CHOOSE i \in 1..26 : LowerLetters[i] = c)
      [] \E i \in 1..26 : UpperLetters[i] = c ->
            64 + (CHOOSE i \in 1..26 : UpperLetters[i] = c)

\* A string literal of the source, as its sequence of character codes.
Str(s) == [i \in 1..Len(s) |-> Ord(s[i])]

----------------------------------------------------------------------------
(* JNI values. *)

\* A jstring: the null reference, or a java.lang.String of UTF-16 code units.
JNull == [ref |-> "null", chars |-> <<>>]
JString(chars) == [ref |-> "string", chars |-> chars]

\* A const char*: nullptr, or a buffer of bytes (its terminating NUL implied).
NullPtr == [ptr |-> "null", bytes |-> <<>>]
Buffer(bytes) == [ptr |-> "buffer", bytes |-> bytes]

\* The modified UTF-8 encoding of one UTF-16 code unit, as GetStringUTFChars
\* produces it: U+0001..U+007F one byte, U+0000 and U+0080..U+07FF two bytes,
\* everything else (surrogates included, each on its own) three bytes.
ModifiedUtf8Unit(u) ==
    IF u >= 1 /\ u <= 127 THEN <<u>>
    ELSE IF u <= 2047 THEN <<192 + (u \div 64), 128 + (u % 64)>>
    ELSE <<224 + (u \div 4096), 128 + ((u \div 64) % 64), 128 + (u % 64)>>

RECURSIVE ModifiedUtf8(_)
ModifiedUtf8(chars) ==
    IF chars = <<>> THEN <<>>
    ELSE ModifiedUtf8Unit(Head(chars)) \o ModifiedUtf8(Tail(chars))

\* The pointer env->GetStringUTFChars(str, nullptr) returns: the encoded
\* buffer, or nullptr when the VM could not produce one.
GetStringUTFChars(str, outcome) ==
    IF outcome = "buffer" THEN Buffer(ModifiedUtf8(str.chars)) ELSE NullPtr

----------------------------------------------------------------------------
(* The C++ standard library, as far as the source uses it. *)

\* std::string::npos, the "not found" result of find.
npos == -1

\* std::string(const char*): the bytes up to the first NUL.
CString(bytes) ==
    LET nuls == {i \in 1..Len(bytes) : bytes[i] = 0}
    IN IF nuls = {} THEN bytes
       ELSE SubSeq(bytes, 1, (CHOOSE i \in nuls : \A j \in nuls : i <= j) - 1)

\* A byte as the char the loops see. char is signed on x86 and unsigned on
\* ARM; the tests below give the same answer for both, the signed one is
\* written out.
AsChar(b) == IF b > 127 THEN b - 256 ELSE b
AsByte(c) == IF c < 0 THEN c + 256 ELSE c

\* ::tolower in the "C" locale: A-Z to a-z, every other value unchanged
\* (bionic returns values outside 'A'..'Z' as they are, negative ones too).
tolower(c) == IF c >= 65 /\ c <= 90 THEN c + 32 ELSE c

\* Mutant of TransformToLower: the transform call left out.
TransformNothing(s) == s

\* std::transform(begin, end, begin, ::tolower)
TransformToLower(s) == [i \in 1..Len(s) |-> AsByte(tolower(AsChar(s[i])))]

\* s.find(p): the 0-based position of the first occurrence of p, or npos.
find(s, p) ==
    LET hits == {i \in 0..(Len(s) - Len(p)) : SubSeq(s, i + 1, i + Len(p)) = p}
    IN IF hits = {} THEN npos
       ELSE CHOOSE i \in hits : \A j \in hits : i <= j

----------------------------------------------------------------------------
(* nativeDetectLanguage: the patterns of the keyword cascade, in the order  *)
(* the source tests them.                                                   *)

\* The patterns of the first branch, result "es".
SpanishPatterns ==
    << Str(<<" ","e","l"," ">>),
       Str(<<" ","l","a"," ">>),
       Str(<<" ","d","e"," ">>),
       Str(<<" ","q","u","e"," ">>),
       Str(<<" ","e","s"," ">>),
       Str(<<" ","c","o","n"," ">>),
       Str(<<" ","y"," ">>),
       Str(<<" ","e","n"," ">>),
       Str(<<" ","u","n"," ">>),
       Str(<<" ","u","n","a"," ">>) >>

\* The patterns of the second branch, result "fr".
FrenchPatterns ==
    << Str(<<" ","l","e"," ">>),
       Str(<<" ","l","a"," ">>),
       Str(<<" ","e","t"," ">>),
       Str(<<" ","c","e"," ">>),
       Str(<<" ","q","u","i"," ">>),
       Str(<<" ","a","v","e","c"," ">>),
       Str(<<" ","e","s","t"," ">>),
       Str(<<" ","d","a","n","s"," ">>),
       Str(<<" ","p","o","u","r"," ">>),
       Str(<<" ","u","n"," ">>) >>

\* The patterns of the third branch, result "de".
GermanPatterns ==
    << Str(<<" ","u","n","d"," ">>),
       Str(<<" ","d","e","r"," ">>),
       Str(<<" ","d","i","e"," ">>),
       Str(<<" ","d","a","s"," ">>),
       Str(<<" ","m","i","t"," ">>),
       Str(<<" ","i","s","t"," ">>),
       Str(<<" ","e","i","n"," ">>),
       Str(<<" ","e","i","n","e"," ">>),
       Str(<<" ","a","u","f"," ">>),
       Str(<<" ","v","o","n"," ">>) >>

\* The patterns of the fourth branch, result "it".
ItalianPatterns ==
    << Str(<<" ","i","l"," ">>),
       Str(<<" ","c","h","e"," ">>),
       Str(<<" ","c","o","n"," ">>),
       Str(<<" ","p","e","r"," ">>),
       Str(<<" ","s","o","n","o"," ">>),
       Str(<<" ","e"," ">>),
       Str(<<" ","i","n"," ">>),
       Str(<<" ","u","n"," ">>),
       Str(<<" ","u","n","a"," ">>),
       Str(<<" ","n","o","n"," ">>) >>

\* The patterns of the fifth branch, result "pt".
PortuguesePatterns ==
    << Str(<<" ","o"," ">>),
       Str(<<" ","a"," ">>),
       Str(<<" ","q","u","e"," ">>),
       Str(<<" ","p","a","r","a"," ">>),
       Str(<<" ","c","o","m"," ">>),
       Str(<<" ","e"," ">>),
       Str(<<" ","e","m"," ">>),
       Str(<<" ","u","m"," ">>),
       Str(<<" ","u","m","a"," ">>),
       Str(<<" ","d","e"," ">>) >>

\* Mutant of AnyFound: the patterns searched without their two spaces.
AnyFoundBare(s, patterns) ==
    \E i \in 1..Len(patterns) :
       find(s, SubSeq(patterns[i], 2, Len(patterns[i]) - 1)) # npos

\* textStr.find(p1) != npos || textStr.find(p2) != npos || ...
AnyFound(s, patterns) ==
    \E i \in 1..Len(patterns) : find(s, patterns[i]) # npos

\* Mutant of KeywordCascade: the German branch tested first.
KeywordCascadeGermanFirst(s, r) ==
    IF AnyFound(s, GermanPatterns) THEN "de"
    ELSE IF AnyFound(s, SpanishPatterns) THEN "es"
    ELSE IF AnyFound(s, FrenchPatterns) THEN "fr"
    ELSE IF AnyFound(s, ItalianPatterns) THEN "it"
    ELSE IF AnyFound(s, PortuguesePatterns) THEN "pt"
    ELSE r

\* The if / else-if chain over the five pattern lists; r is the value result
\* holds before it ("en").
KeywordCascade(s, r) ==
    IF AnyFound(s, SpanishPatterns) THEN "es"
    ELSE IF AnyFound(s, FrenchPatterns) THEN "fr"
    ELSE IF AnyFound(s, GermanPatterns) THEN "de"
    ELSE IF AnyFound(s, ItalianPatterns) THEN "it"
    ELSE IF AnyFound(s, PortuguesePatterns) THEN "pt"
    ELSE r

\* Mutant of AccentCount: the test c < 0 left out, so that a signed char
\* never counts.
AccentCountAbove127(s) ==
    Cardinality({i \in 1..Len(s) : AsChar(s[i]) > 127})

\* for (char c : textStr) if (c < 0 || c > 127) accentCount++;
AccentCount(s) ==
    Cardinality({i \in 1..Len(s) : AsChar(s[i]) < 0 \/ AsChar(s[i]) > 127})

\* Mutant of AccentFallback: >= in place of >.
AccentFallbackAtLeast(accentCount, length, r) ==
    IF 10 * accentCount >= length /\ r = "en" THEN "mul" ELSE r

\* Mutant of AccentFallback: the test result == "en" left out.
AccentFallbackAlways(accentCount, length, r) ==
    IF 10 * accentCount > length THEN "mul" ELSE r

\* accentCount > textStr.length() * 0.1 && result == "en". The comparison is
\* made in double; for every length a string can have it decides as the exact
\* comparison 10 * accentCount > length does (0.1 rounds up, so length * 0.1
\* is never below length / 10 and is below length / 10 + 0.1).
AccentFallback(accentCount, length, r) ==
    IF 10 * accentCount > length /\ r = "en" THEN "mul" ELSE r

----------------------------------------------------------------------------
(* The arguments the callers pass. *)

\* The pieces input texts are put together from: a space, a capitalised
\* keyword with a space on one side only, a delimited keyword of each
\* language, a word that embeds a keyword, punctuation, a tab, an accented
\* letter (U+00E9), the character U+0000 and an 18-letter word.
TOKENS ==
    { Str(<<" ">>),
      Str(<<" ","E","l">>),
      Str(<<"E","l"," ">>),
      Str(<<" ","u","n"," ">>),
      Str(<<" ","l","e"," ">>),
      Str(<<" ","e"," ">>),
      Str(<<" ","o"," ">>),
      Str(<<" ","U","N","D"," ">>),
      Str(<<" ","d","e","r"," ">>),
      Str(<<"m","o","d","e","l">>),
      Str(<<".">>),
      Str(<<"\t">>),
      <<233>>,
      <<0>>,
      Str(<<"i","n","c","o","m","p","r","e","h","e","n","s","i","b","i","l","i","t">>) }

RECURSIVE Flatten(_)
Flatten(ss) == IF ss = <<>> THEN <<>> ELSE Head(ss) \o Flatten(Tail(ss))

\* Every text of at most n tokens.
TextsUpTo(n) ==
    { JString(Flatten(ss)) : ss \in UNION { [1..k -> TOKENS] : k \in 0..n } }

\* The texts a single caller passes to detect.
Texts == TextsUpTo(MaxTokens)

\* The texts concurrent callers pass to detect: one per outcome.
ConcTexts ==
    { JString(<<>>),
      JString(Str(<<" ","E","l"," ","d","e","r"," ">>)),
      JString(Str(<<"u","n"," ","e"," ","o">>)),
      JString(<<233, 233>>) }

\* The model paths passed to initialize.
ModelPaths == { JString(<<>>), JString(Str(<<"m","o","d","e","l">>)) }

\* The handles passed to detect and release.
Handles == {0, 7}

Threads == DOMAIN pc

----------------------------------------------------------------------------
(* The state of a thread outside a call, and the initial state. *)

InitFor(T) ==
    /\ pc = [t \in T |-> "idle"]
    /\ op = [t \in T |-> "none"]
    /\ handle = [t \in T |-> 0]
    /\ text = [t \in T |-> JNull]
    /\ nativeText = [t \in T |-> NullPtr]
    /\ textStr = [t \in T |-> <<>>]
    /\ result = [t \in T |-> ""]
    /\ ret = [t \in T |-> "<none>"]
    /\ logged = [t \in T |-> <<>>]
    /\ acquired = [t \in T |-> 0]
    /\ released = [t \in T |-> 0]
    /\ outstanding = 0
    /\ cleanedUp = {}
    /\ aborted = FALSE

\* What GetStringUTFChars can do with str. Passing a null reference is
\* undefined by the JNI specification: the VM aborts (ART's argument check,
\* HotSpot's null dereference) or returns nullptr.
JniOutcomes(str) ==
    IF str = JNull THEN {"abort", "null"} ELSE {"buffer", "null"}

----------------------------------------------------------------------------
(* nativeInitialize *)

\* Entry up to the first return or the log call: GetStringUTFChars on
\* modelPath, the nullptr check, the log of the path.
InitializeEnter(t) ==
    /\ ~aborted
    /\ pc[t] = "idle"
    /\ \E modelPath \in ModelPaths \cup {JNull} :
       \E outcome \in JniOutcomes(modelPath) :
          LET path == GetStringUTFChars(modelPath, outcome) IN
          IF outcome = "abort"
          THEN /\ aborted' = TRUE
               /\ op' = [op EXCEPT ![t] = "initialize"]
               /\ text' = [text EXCEPT ![t] = modelPath]
               /\ pc' = [pc EXCEPT ![t] = "aborted"]
               /\ UNCHANGED <<handle, nativeText, textStr, result, ret, logged,
                              acquired, released, outstanding, cleanedUp>>
          ELSE /\ op' = [op EXCEPT ![t] = "initialize"]
               /\ text' = [text EXCEPT ![t] = modelPath]
               /\ nativeText' = [nativeText EXCEPT ![t] = path]
               /\ IF path = NullPtr
                  THEN /\ ret' = [ret EXCEPT ![t] = ""]
                       /\ pc' = [pc EXCEPT ![t] = "done"]
                       /\ UNCHANGED <<logged, acquired, outstanding>>
                  ELSE /\ logged' = [logged EXCEPT ![t] = <<"Initializing with model path">>]
                       /\ acquired' = [acquired EXCEPT ![t] = @ + 1]
                       /\ outstanding' = outstanding + 1
                       /\ pc' = [pc EXCEPT ![t] = "i_exit"]
                       /\ UNCHANGED ret
               /\ UNCHANGED <<handle, textStr, result, released, cleanedUp, aborted>>

\* ReleaseStringUTFChars(modelPath, path); return NewStringUTF("1.2.0").
InitializeExit(t) ==
    /\ ~aborted
    /\ pc[t] = "i_exit"
    /\ released' = [released EXCEPT ![t] = @ + 1]
    /\ outstanding' = outstanding - 1
    /\ ret' = [ret EXCEPT ![t] = "1.2.0"]
    /\ pc' = [pc EXCEPT ![t] = "done"]
    /\ UNCHANGED <<op, handle, text, nativeText, textStr, result, logged,
                   acquired, cleanedUp, aborted>>

----------------------------------------------------------------------------
(* nativeDetectLanguage *)

\* Entry up to the log call: the null check of text, GetStringUTFChars, the
\* nullptr check, the log of the text. X is the set of texts callers pass.
DetectEnter(t, X) ==
    /\ ~aborted
    /\ pc[t] = "idle"
    /\ \E h \in Handles : \E x \in X \cup {JNull} :
       \E outcome \in {"buffer", "null"} :
          /\ op' = [op EXCEPT ![t] = "detect"]
          /\ handle' = [handle EXCEPT ![t] = h]
          /\ text' = [text EXCEPT ![t] = x]
          /\ IF x = JNull
             THEN /\ ret' = [ret EXCEPT ![t] = "und"]
                  /\ pc' = [pc EXCEPT ![t] = "done"]
                  /\ UNCHANGED <<nativeText, logged, acquired, outstanding>>
             ELSE LET chars == GetStringUTFChars(x, outcome) IN
                  /\ nativeText' = [nativeText EXCEPT ![t] = chars]
                  /\ IF chars = NullPtr
                     THEN /\ ret' = [ret EXCEPT ![t] = "und"]
                          /\ pc' = [pc EXCEPT ![t] = "done"]
                          /\ UNCHANGED <<logged, acquired, outstanding>>
                     ELSE /\ logged' = [logged EXCEPT ![t] = <<"Detecting language for text">>]
                          /\ acquired' = [acquired EXCEPT ![t] = @ + 1]
                          /\ outstanding' = outstanding + 1
                          /\ pc' = [pc EXCEPT ![t] = "d_normalize"]
                          /\ UNCHANGED ret
          /\ UNCHANGED <<textStr, result, released, cleanedUp, aborted>>

\* Mutant of DefaultResult: the result initialised to the undetermined code.
DefaultResultUnd == "und"

\* std::string result = "en"; // Default to English
DefaultResult == "en"

\* Mutant of DetectNormalize: textStr a static buffer all calls share.
DetectNormalizeShared(t) ==
    /\ ~aborted
    /\ pc[t] = "d_normalize"
    /\ textStr' = [u \in Threads |->
                      TransformToLower(CString(nativeText[t].bytes))]
    /\ result' = [result EXCEPT ![t] = DefaultResult]
    /\ pc' = [pc EXCEPT ![t] = "d_classify"]
    /\ UNCHANGED <<op, handle, text, nativeText, ret, logged, acquired,
                   released, outstanding, cleanedUp, aborted>>

\* std::string textStr(nativeText); std::string result = "en";
\* std::transform(..., ::tolower).
DetectNormalize(t) ==
    /\ ~aborted
    /\ pc[t] = "d_normalize"
    /\ textStr' = [textStr EXCEPT ![t] = TransformToLower(CString(nativeText[t].bytes))]
    /\ result' = [result EXCEPT ![t] = DefaultResult]
    /\ pc' = [pc EXCEPT ![t] = "d_classify"]
    /\ UNCHANGED <<op, handle, text, nativeText, ret, logged, acquired,
                   released, outstanding, cleanedUp, aborted>>

\* The keyword cascade, the count of non-ASCII chars and the "mul" fallback.
DetectClassify(t) ==
    /\ ~aborted
    /\ pc[t] = "d_classify"
    /\ LET keyword == KeywordCascade(textStr[t], result[t])
           accentCount == AccentCount(textStr[t])
       IN result' = [result EXCEPT ![t] =
                        AccentFallback(accentCount, Len(textStr[t]), keyword)]
    /\ pc' = [pc EXCEPT ![t] = "d_exit"]
    /\ UNCHANGED <<op, handle, text, nativeText, textStr, ret, logged,
                   acquired, released, outstanding, cleanedUp, aborted>>

\* Mutant of DetectExit: the buffer not released before the return.
DetectExitNoRelease(t) ==
    /\ ~aborted
    /\ pc[t] = "d_exit"
    /\ ret' = [ret EXCEPT ![t] = result[t]]
    /\ pc' = [pc EXCEPT ![t] = "done"]
    /\ UNCHANGED <<op, handle, text, nativeText, textStr, result, logged,
                   acquired, released, outstanding, cleanedUp, aborted>>

\* ReleaseStringUTFChars(text, nativeText); return NewStringUTF(result).
DetectExit(t) ==
    /\ ~aborted
    /\ pc[t] = "d_exit"
    /\ released' = [released EXCEPT ![t] = @ + 1]
    /\ outstanding' = outstanding - 1
    /\ ret' = [ret EXCEPT ![t] = result[t]]
    /\ pc' = [pc EXCEPT ![t] = "done"]
    /\ UNCHANGED <<op, handle, text, nativeText, textStr, result, logged,
                   acquired, cleanedUp, aborted>>

----------------------------------------------------------------------------
(* nativeRelease, nativeGetVersion, and the return to the caller. *)

\* if (handle != 0) LOGI(...); nothing else. cleanedUp collects the handles
\* the log has a clean-up line for.
Release(t) ==
    /\ ~aborted
    /\ pc[t] = "idle"
    /\ \E h \in Handles :
          /\ op' = [op EXCEPT ![t] = "release"]
          /\ handle' = [handle EXCEPT ![t] = h]
          /\ IF h # 0
             THEN /\ logged' = [logged EXCEPT ![t] =
                                   <<"Language identifier resources cleaned up">>]
                  /\ cleanedUp' = cleanedUp \cup {h}
             ELSE UNCHANGED <<logged, cleanedUp>>
    /\ ret' = [ret EXCEPT ![t] = "<void>"]
    /\ pc' = [pc EXCEPT ![t] = "done"]
    /\ UNCHANGED <<text, nativeText, textStr, result, acquired, released,
                   outstanding, aborted>>

\* return NewStringUTF("1.2.0").
GetVersion(t) ==
    /\ ~aborted
    /\ pc[t] = "idle"
    /\ op' = [op EXCEPT ![t] = "getVersion"]
    /\ ret' = [ret EXCEPT ![t] = "1.2.0"]
    /\ pc' = [pc EXCEPT ![t] = "done"]
    /\ UNCHANGED <<handle, text, nativeText, textStr, result, logged,
                   acquired, released, outstanding, cleanedUp, aborted>>

\* The call has returned: its frame (arguments and locals) is gone.
Return(t) ==
    /\ ~aborted
    /\ pc[t] = "done"
    /\ pc' = [pc EXCEPT ![t] = "idle"]
    /\ op' = [op EXCEPT ![t] = "none"]
    /\ handle' = [handle EXCEPT ![t] = 0]
    /\ text' = [text EXCEPT ![t] = JNull]
    /\ nativeText' = [nativeText EXCEPT ![t] = NullPtr]
    /\ textStr' = [textStr EXCEPT ![t] = <<>>]
    /\ result' = [result EXCEPT ![t] = ""]
    /\ ret' = [ret EXCEPT ![t] = "<none>"]
    /\ logged' = [logged EXCEPT ![t] = <<>>]
    /\ acquired' = [acquired EXCEPT ![t] = 0]
    /\ released' = [released EXCEPT ![t] = 0]
    /\ UNCHANGED <<outstanding, cleanedUp, aborted>>

----------------------------------------------------------------------------
(* Specifications. *)

\* One caller, every text of Texts.
Init == InitFor({1})

Next ==
    \/ \E t \in Threads : InitializeEnter(t)
    \/ \E t \in Threads : InitializeExit(t)
    \/ \E t \in Threads : DetectEnter(t, Texts)
    \/ \E t \in Threads : DetectNormalize(t)
    \/ \E t \in Threads : DetectClassify(t)
    \/ \E t \in Threads : DetectExit(t)
    \/ \E t \in Threads : Release(t)
    \/ \E t \in Threads : GetVersion(t)
    \/ \E t \in Threads : Return(t)

Spec == Init /\ [][Next]_vars

\* NumThreads callers running concurrently, the texts of ConcTexts.
ConcInit == InitFor(1..NumThreads)

ConcNext ==
    \/ \E t \in Threads : InitializeEnter(t)
    \/ \E t \in Threads : InitializeExit(t)
    \/ \E t \in Threads : DetectEnter(t, ConcTexts)
    \/ \E t \in Threads : DetectNormalize(t)
    \/ \E t \in Threads : DetectClassify(t)
    \/ \E t \in Threads : DetectExit(t)
    \/ \E t \in Threads : Release(t)
    \/ \E t \in Threads : GetVersion(t)
    \/ \E t \in Threads : Return(t)

ConcSpec == ConcInit /\ [][ConcNext]_vars

\* The whole of nativeDetectLanguage as a function of its text argument and of
\* what GetStringUTFChars did: the value one call, run alone, returns.
DetectLanguage(x, outcome) ==
    IF x = JNull THEN "und"
    ELSE LET chars == GetStringUTFChars(x, outcome) IN
         IF chars = NullPtr THEN "und"
         ELSE LET s == TransformToLower(CString(chars.bytes)) IN
              AccentFallback(AccentCount(s), Len(s), KeywordCascade(s, DefaultResult))

----------------------------------------------------------------------------
(* The vocabulary of the specification's claims, written from its text.     *)

\* The fixed priority order of the keyword languages.
LanguageOrder == <<"es", "fr", "de", "it", "pt">>

\* The keyword tables of the specification (section 4.1, step 3).
SpecKeywords ==
    [ es |-> { Str(<<"e","l">>), Str(<<"l","a">>), Str(<<"d","e">>),
               Str(<<"q","u","e">>), Str(<<"e","s">>), Str(<<"c","o","n">>),
               Str(<<"y">>), Str(<<"e","n">>), Str(<<"u","n">>),
               Str(<<"u","n","a">>) },
      fr |-> { Str(<<"l","e">>), Str(<<"l","a">>), Str(<<"e","t">>),
               Str(<<"c","e">>), Str(<<"q","u","i">>),
               Str(<<"a","v","e","c">>), Str(<<"e","s","t">>),
               Str(<<"d","a","n","s">>), Str(<<"p","o","u","r">>),
               Str(<<"u","n">>) },
      de |-> { Str(<<"u","n","d">>), Str(<<"d","e","r">>),
               Str(<<"d","i","e">>), Str(<<"d","a","s">>),
               Str(<<"m","i","t">>), Str(<<"i","s","t">>),
               Str(<<"e","i","n">>), Str(<<"e","i","n","e">>),
               Str(<<"a","u","f">>), Str(<<"v","o","n">>) },
      it |-> { Str(<<"i","l">>), Str(<<"c","h","e">>), Str(<<"c","o","n">>),
               Str(<<"p","e","r">>), Str(<<"s","o","n","o">>), Str(<<"e">>),
               Str(<<"i","n">>), Str(<<"u","n">>), Str(<<"u","n","a">>),
               Str(<<"n","o","n">>) },
      pt |-> { Str(<<"o">>), Str(<<"a">>), Str(<<"q","u","e">>),
               Str(<<"p","a","r","a">>), Str(<<"c","o","m">>), Str(<<"e">>),
               Str(<<"e","m">>), Str(<<"u","m">>), Str(<<"u","m","a">>),
               Str(<<"d","e">>) } ]

KeywordCodes == {"es", "fr", "de", "it", "pt"}

\* The text with its ASCII capitals lower-cased, character by character.
LowerCased(chars) ==
    [i \in 1..Len(chars) |->
        IF chars[i] >= 65 /\ chars[i] <= 90 THEN chars[i] + 32 ELSE chars[i]]

\* The word w stands in s at position i.
OccursAt(s, w, i) ==
    /\ i >= 1
    /\ i + Len(w) - 1 <= Len(s)
    /\ \A j \in 1..Len(w) : s[i + j - 1] = w[j]

\* The word w stands in s at position i with one space right before it and
\* one space right after it.
DelimitedAt(s, w, i) ==
    /\ i >= 2
    /\ i + Len(w) <= Len(s)
    /\ s[i - 1] = 32
    /\ s[i + Len(w)] = 32
    /\ OccursAt(s, w, i)

\* s has a space-delimited keyword of the language.
HasKeyword(s, lang) ==
    \E w \in SpecKeywords[lang] : \E i \in 1..Len(s) : DelimitedAt(s, w, i)

HasAnyKeyword(s) == \E lang \in KeywordCodes : HasKeyword(s, lang)

\* s has some keyword as a bare substring, delimited or not.
HasBareKeyword(s) ==
    \E lang \in KeywordCodes : \E w \in SpecKeywords[lang] :
       \E i \in 1..Len(s) : OccursAt(s, w, i)

\* The first language, in priority order, that has a keyword in s.
FirstLanguage(s) ==
    LanguageOrder[CHOOSE i \in 1..5 :
                     /\ HasKeyword(s, LanguageOrder[i])
                     /\ \A j \in 1..(i - 1) : ~HasKeyword(s, LanguageOrder[j])]

\* The number of characters of the normalized text outside 0..127.
NonAsciiCount(s) == Cardinality({i \in 1..Len(s) : s[i] < 0 \/ s[i] > 127})

\* Thread t has completed a detect call.
DetectDone(t) == pc[t] = "done" /\ op[t] = "detect"

\* Thread t has completed a detect call on a text it could obtain.
Processed(t) ==
    DetectDone(t) /\ text[t] # JNull /\ nativeText[t] # NullPtr

\* The lower-cased text of the call of thread t.
Lowered(t) == LowerCased(text[t].chars)

----------------------------------------------------------------------------
(* C1 *)

\* C1: for every non-null text whose lower-cased form contains a
\* space-delimited keyword of the tables, detect returns the first language
\* in the order es, fr, de, it, pt that has a match, whatever keywords of
\* later languages also match.
C1_FirstLanguageWins ==
    \A t \in Threads :
       (Processed(t) /\ HasAnyKeyword(Lowered(t)))
          => ret[t] = FirstLanguage(Lowered(t))

\* A text with a Spanish and a German keyword has been classified es.
C1_Witness ==
    \E t \in Threads :
       /\ Processed(t)
       /\ HasKeyword(Lowered(t), "es")
       /\ HasKeyword(Lowered(t), "de")
       /\ ret[t] = "es"

----------------------------------------------------------------------------
(* C2 *)

\* C2: detect returns und exactly when the text is null or could not be
\* obtained; for every text it could process, one containing " und "
\* included, the result is one of es, fr, de, it, pt, en, mul; and no detect
\* call ends in a failure.
C2_UndOnlyForUnavailableText ==
    \A t \in Threads :
       /\ op[t] = "detect" => pc[t] # "aborted"
       /\ DetectDone(t) =>
             /\ (ret[t] = "und") <=> (text[t] = JNull \/ nativeText[t] = NullPtr)
             /\ Processed(t) =>
                   ret[t] \in {"es", "fr", "de", "it", "pt", "en", "mul"}

\* A text containing the German keyword " und " has been classified de.
C2_Witness ==
    \E t \in Threads :
       /\ Processed(t)
       /\ \E i \in 1..Len(Lowered(t)) :
             DelimitedAt(Lowered(t), Str(<<"u","n","d">>), i)
       /\ ret[t] = "de"

----------------------------------------------------------------------------
(* C3 *)

----------------------------------------------------------------------------
(* C4 *)

\* C4: for every non-null text without a keyword whose count of non-ASCII
\* characters is above one tenth of its length, detect returns mul.
C4_MulFallback ==
    \A t \in Threads :
       (/\ Processed(t)
        /\ ~HasAnyKeyword(Lowered(t))
        /\ 10 * NonAsciiCount(textStr[t]) > Len(textStr[t]))
          => ret[t] = "mul"

\* A text of accented letters only has been classified mul.
C4_Witness ==
    \E t \in Threads :
       /\ Processed(t)
       /\ Len(text[t].chars) > 1
       /\ \A i \in 1..Len(text[t].chars) : text[t].chars[i] > 127
       /\ ret[t] = "mul"

----------------------------------------------------------------------------
(* C5 *)

\* C5: the non-ASCII fallback never overrides a keyword result: a text in
\* which a keyword matched is classified es, fr, de, it or pt whatever its
\* share of non-ASCII characters, and mul is returned only when none matched.
C5_FallbackNeverOverrides ==
    \A t \in Threads :
       Processed(t) =>
          /\ HasAnyKeyword(Lowered(t)) => ret[t] \in KeywordCodes
          /\ ret[t] = "mul" => ~HasAnyKeyword(Lowered(t))

\* A text with a keyword and more than one tenth of non-ASCII characters has
\* been classified by its keyword.
C5_Witness ==
    \E t \in Threads :
       /\ Processed(t)
       /\ HasAnyKeyword(Lowered(t))
       /\ 10 * NonAsciiCount(textStr[t]) > Len(textStr[t])
       /\ ret[t] \in KeywordCodes

----------------------------------------------------------------------------
(* C6 *)

\* C6: a keyword matches only where it stands with one space right before
\* and right after it; a text whose keyword occurrences are all embedded in a
\* word, at the start or the end, or next to punctuation or a tab is
\* classified as keyword-free, en or mul.
C6_OnlyDelimitedKeywordsMatch ==
    \A t \in Threads :
       (Processed(t) /\ ~HasAnyKeyword(Lowered(t)))
          => ret[t] \in {"en", "mul"}

\* A text that holds keywords, none of them space-delimited, has been
\* classified as keyword-free.
C6_Witness ==
    \E t \in Threads :
       /\ Processed(t)
       /\ HasBareKeyword(Lowered(t))
       /\ ~HasAnyKeyword(Lowered(t))
       /\ ret[t] \in {"en", "mul"}

----------------------------------------------------------------------------
(* C7 *)

UpperCased(chars) ==
    [i \in 1..Len(chars) |->
        IF chars[i] >= 97 /\ chars[i] <= 122 THEN chars[i] - 32 ELSE chars[i]]

\* chars with the case of every ASCII letter changed.
SwapCased(chars) ==
    [i \in 1..Len(chars) |->
        IF chars[i] >= 97 /\ chars[i] <= 122 THEN chars[i] - 32
        ELSE IF chars[i] >= 65 /\ chars[i] <= 90 THEN chars[i] + 32
        ELSE chars[i]]

\* Texts that differ from chars in the case of ASCII letters only: all lower
\* ("el gato"), all upper ("EL GATO"), every letter changed ("eL GATO").
CaseVariants(chars) ==
    {LowerCased(chars), UpperCased(chars), SwapCased(chars)}

\* C7: changing the case of ASCII letters of a text does not change what
\* detect returns for it, and lower-casing leaves the length of the text and
\* its non-ASCII characters as they are.
C7_CaseInsensitive ==
    \A t \in Threads :
       Processed(t) =>
          /\ \A y \in CaseVariants(text[t].chars) :
                DetectLanguage(JString(y), "buffer") = ret[t]
          /\ Len(textStr[t]) = Len(nativeText[t].bytes)
          /\ \A i \in 1..Len(textStr[t]) :
                nativeText[t].bytes[i] > 127 => textStr[t][i] = nativeText[t].bytes[i]

\* A text whose only keyword is written with a capital has been classified
\* by that keyword.
C7_Witness ==
    \E t \in Threads :
       /\ Processed(t)
       /\ ~HasAnyKeyword(text[t].chars)
       /\ HasAnyKeyword(Lowered(t))
       /\ ret[t] \in KeywordCodes

----------------------------------------------------------------------------
(* C8 *)

\* C8: whatever initialize, detect, release and getVersion calls other
\* threads make, with whatever handles, every detect call returns what a
\* detect call on the same text returns when it runs alone.
C8_DetectDependsOnTextAlone ==
    \A t \in Threads :
       DetectDone(t) =>
          ret[t] = DetectLanguage(text[t],
                      IF nativeText[t] = NullPtr THEN "null" ELSE "buffer")

\* A detect call on a handle already released has returned es while another
\* thread was inside a detect call on another text.
C8_Witness ==
    \E t \in Threads : \E u \in Threads \ {t} :
       /\ Processed(t)
       /\ handle[t] \in cleanedUp
       /\ ret[t] = "es"
       /\ op[u] = "detect"
       /\ pc[u] \in {"d_classify", "d_exit"}
       /\ text[u] # text[t]

----------------------------------------------------------------------------
(* C9 *)

\* C9: initialize returns the empty string for a null hint, without
\* failing, and "1.2.0" for every hint it could read; getVersion returns
\* "1.2.0" on every call.
C9_InitializeAndVersion ==
    \A t \in Threads :
       /\ (op[t] = "initialize" /\ text[t] = JNull) =>
             /\ pc[t] # "aborted"
             /\ pc[t] = "done" => ret[t] = ""
       /\ (op[t] = "initialize" /\ pc[t] = "done" /\ nativeText[t] # NullPtr) =>
             ret[t] = "1.2.0"
       /\ (op[t] = "getVersion" /\ pc[t] = "done") => ret[t] = "1.2.0"

----------------------------------------------------------------------------
(* C10 *)

\* C10: when detect or initialize returns, on any path, every buffer the
\* call obtained has been released exactly once, and none is released that
\* was not obtained; with no call in progress no buffer is outstanding.
C10_BuffersReleasedOnce ==
    /\ \A t \in Threads : released[t] <= acquired[t]
    /\ \A t \in Threads : pc[t] = "done" => released[t] = acquired[t]
    /\ (\A t \in Threads : pc[t] \in {"idle", "done"}) => outstanding = 0

\* One thread has returned from a full detect call and another from the
\* early und return; the one buffer obtained has been released.
C10_Witness ==
    \E t \in Threads : \E u \in Threads \ {t} :
       /\ Processed(t)
       /\ acquired[t] = 1
       /\ released[t] = 1
       /\ DetectDone(u)
       /\ ret[u] = "und"
       /\ acquired[u] = 0
       /\ outstanding = 0

====
